---- MODULE Spec2Model ----
(***************************************************************************)
(* A model of monch (src/src/lib.rs), a backtracking parser-combinator     *)
(* library.                                                                *)
(*                                                                         *)
(* A `&str` cursor is a sequence of one-character strings.  A combinator   *)
(* (a Rust closure `Fn(&str) -> ParseResult<O>`) is a record naming the    *)
(* library function that built it and that function's arguments; Apply     *)
(* calls it on a cursor.  Combinators are therefore pure: two calls on the *)
(* same cursor give the same outcome.                                      *)
(*                                                                         *)
(* The state machine calls one library function on operands drawn from     *)
(* Base and on an input drawn from Str.  The functions without a loop are  *)
(* one step; many_till, many0, many1 and separated_list run one loop       *)
(* iteration half per step.                                                *)
(***************************************************************************)
EXTENDS Naturals, Sequences, FiniteSets

\* ------------------------------------------------------------------ bounds
\* Longest input handed to a combinator.
MaxLen == 3
\* Characters are counted, as the source does, up to this many in a formatted error.
SnippetLen == 60

\* The alphabet: one ordinary character and one whitespace character.
Chars == {"x", " "}
Str == UNION {[1..n -> Chars] : n \in 0..MaxLen}
\* The loops are cut after this many collected values (a loop that makes no
\* progress pushes to its Vec for ever).
MaxResults == MaxLen + 2

\* ------------------------------------------------------------- str helpers
Drop(s, n) == SubSeq(s, n + 1, Len(s))
Take(s, n) == SubSeq(s, 1, IF n < Len(s) THEN n ELSE Len(s))
starts_with(s, value) == Len(value) <= Len(s) /\ Take(s, Len(value)) = value
IsSuffix(r, i) == Len(r) <= Len(i) /\ Drop(i, Len(i) - Len(r)) = r
contains(value, c) == \E k \in 1..Len(value) : value[k] = c
is_whitespace(c) == c = " "

\* ------------------------------------------------------------------ values
CharV(c) == [char |-> c]
StrV(s) == [str |-> s]
Unit == [unit |-> TRUE]
Some(v) == [some |-> v]
None == [none |-> TRUE]
PairV(x, y) == [first |-> x, second |-> y]
VecV(items) == [vec |-> items]

\* ---------------------------------------------------------------- outcomes
\* ParseResult<'a, O> = Result<(&'a str, O), ParseError<'a>>
Ok(input, value) == [kind |-> "Ok", input |-> input, value |-> value]
Backtrace == [kind |-> "Backtrace"]
Failure(input, message) == [kind |-> "Failure", input |-> input, message |-> message]

IsOk(r) == r.kind = "Ok"
IsBacktrace(r) == r.kind = "Backtrace"
IsFailure(r) == r.kind = "Failure"

\* ParseErrorFailure::new
ParseErrorFailure_new(input, message) == Failure(input, message)

\* ParseErrorFailure::new_for_trailing_input
new_for_trailing_input(input) == ParseErrorFailure_new(input, <<"Unexpected character.">>)

\* ParseErrorFailure::into_error: format!("{}\n  {}\n  ~", message, input.chars().take(60))
into_error(failure) ==
  [error |-> failure.message \o <<"\n  ">> \o Take(failure.input, SnippetLen) \o <<"\n  ~">>]

\* ParseErrorFailure::into_result
into_result(failure) == [kind |-> "Err", error |-> into_error(failure).error]

\* ParseError::fail
ParseError_fail(input, message) == ParseErrorFailure_new(input, message)

\* ParseError::backtrace
ParseError_backtrace == Backtrace

\* ------------------------------------------------- closures given by callers
\* A predicate on a parsed value (if_true's `condition`).
ValueCondHolds(condition, value) ==
  CASE condition.test = "eq_char" -> value = CharV(condition.c)
    [] condition.test = "not_empty" ->
         IF "vec" \in DOMAIN value THEN value.vec # <<>>
         ELSE IF "str" \in DOMAIN value THEN value.str # <<>>
         ELSE TRUE
    [] condition.test = "always" -> TRUE
    [] condition.test = "never" -> FALSE

\* A predicate on a whole outcome (assert's `condition`).
ResultCondHolds(condition, result) ==
  CASE condition.test = "is_ok" -> IsOk(result)
    [] condition.test = "is_err" -> ~IsOk(result)
    [] condition.test = "not_failure" -> ~IsFailure(result)
    [] condition.test = "never" -> FALSE

\* A function on a parsed value (map's `func`).
FuncApply(func, value) ==
  CASE func.fn = "first" -> value.first
    [] func.fn = "second" -> value.second
    [] OTHER -> [fn |-> func.fn, arg |-> value]

RECURSIVE Apply(_, _)

\* -------------------------------------------------------------- primitives
next_char(input) ==
  IF input # <<>> THEN Ok(Drop(input, 1), CharV(input[1])) ELSE ParseError_backtrace

if_true(combinator, condition, input) ==
  LET r == Apply(combinator, input) IN
  IF ~IsOk(r) THEN r
  ELSE IF ValueCondHolds(condition, r.value) THEN Ok(r.input, r.value)
  ELSE ParseError_backtrace

ch(c, input) == if_true([op |-> "next_char"], [test |-> "eq_char", c |-> c], input)

one_of(value, input) ==
  LET r == next_char(input) IN
  IF ~IsOk(r) THEN r
  ELSE IF contains(value, r.value.char) THEN Ok(r.input, r.value)
  ELSE ParseError_backtrace

\* tag with the two slices of its result in each other's place.
tag_swapped_slices(value, input) ==
  IF starts_with(input, value)
  THEN Ok(Take(input, Len(value)), StrV(Drop(input, Len(value))))
  ELSE Backtrace

tag(value, input) ==
  IF starts_with(input, value)
  THEN Ok(Drop(input, Len(value)), StrV(Take(input, Len(value))))
  ELSE Backtrace

substring(combinator, input) ==
  LET original_input == input
      r == Apply(combinator, input)
  IN IF ~IsOk(r) THEN r
     ELSE LET length == Len(original_input) - Len(r.input)
          IN Ok(r.input, StrV(Take(original_input, length)))

\* `cond` is the set of characters the caller's predicate accepts.
skip_while(cond, input) ==
  LET stops == {pos \in 1..Len(input) : input[pos] \notin cond} IN
  IF stops # {}
  THEN LET pos == CHOOSE p \in stops : \A q \in stops : p <= q
       IN Ok(Drop(input, pos - 1), Unit)
  ELSE Ok(<<>>, Unit)

take_while(cond, input) == substring([op |-> "skip_while", cond |-> cond], input)

whitespace(input) ==
  IF input = <<>> THEN ParseError_backtrace
  ELSE LET stops == {pos \in 1..Len(input) : ~is_whitespace(input[pos])} IN
       IF stops # {}
       THEN LET pos == CHOOSE p \in stops : \A q \in stops : p <= q
            IN IF pos = 1 THEN ParseError_backtrace
               ELSE Ok(Drop(input, pos - 1), StrV(Take(input, pos - 1)))
       ELSE Ok(<<>>, StrV(input))

skip_whitespace(input) ==
  LET r == whitespace(input) IN
  CASE IsOk(r) -> Ok(r.input, Unit)
    [] IsBacktrace(r) -> Ok(input, Unit)
    [] OTHER -> r

\* ----------------------------------------------------------------- algebra
maybe(combinator, input) ==
  LET r == Apply(combinator, input) IN
  CASE IsOk(r) -> Ok(r.input, Some(r.value))
    [] IsBacktrace(r) -> Ok(input, None)
    [] OTHER -> r

map(combinator, func, input) ==
  LET r == Apply(combinator, input) IN
  IF ~IsOk(r) THEN r ELSE Ok(r.input, FuncApply(func, r.value))

\* or that takes every error of a, a Failure too, as leave to try b.
or_retries_after_failure(a, b, input) ==
  LET r == Apply(a, input) IN
  IF IsOk(r) THEN r ELSE Apply(b, input)

or(a, b, input) ==
  LET r == Apply(a, input) IN
  CASE IsOk(r) -> r
    [] IsBacktrace(r) -> Apply(b, input)
    [] OTHER -> r

Or(a, b) == [op |-> "or", a |-> a, b |-> b]

or3(a, b, c, input) == or(a, Or(b, c), input)

Or3(a, b, c) == [op |-> "or3", a |-> a, b |-> b, c |-> c]

or4(a, b, c, d, input) == or3(a, b, Or(c, d), input)

Or4(a, b, c, d) == [op |-> "or4", a |-> a, b |-> b, c |-> c, d |-> d]

or5(a, b, c, d, e, input) == or4(a, b, c, Or(d, e), input)

Or5(a, b, c, d, e) == [op |-> "or5", a |-> a, b |-> b, c |-> c, d |-> d, e |-> e]

or6(a, b, c, d, e, f, input) == or5(a, b, c, d, Or(e, f), input)

Or6(a, b, c, d, e, f) ==
  [op |-> "or6", a |-> a, b |-> b, c |-> c, d |-> d, e |-> e, f |-> f]

or7(a, b, c, d, e, f, g, input) == or6(a, b, c, d, e, Or(f, g), input)

Or7(a, b, c, d, e, f, g) ==
  [op |-> "or7", a |-> a, b |-> b, c |-> c, d |-> d, e |-> e, f |-> f, g |-> g]

pair(first, second, input) ==
  LET r1 == Apply(first, input) IN
  IF ~IsOk(r1) THEN r1
  ELSE LET r2 == Apply(second, r1.input) IN
       IF ~IsOk(r2) THEN r2
       ELSE Ok(r2.input, PairV(r1.value, r2.value))

Pair(first, second) == [op |-> "pair", first |-> first, second |-> second]

preceded(first, second, input) == map(Pair(first, second), [fn |-> "second"], input)

terminated(first, second, input) == map(Pair(first, second), [fn |-> "first"], input)

delimited(first, second, third, input) ==
  LET r1 == Apply(first, input) IN
  IF ~IsOk(r1) THEN r1
  ELSE LET r2 == Apply(second, r1.input) IN
       IF ~IsOk(r2) THEN r2
       ELSE LET r3 == Apply(third, r2.input) IN
            IF ~IsOk(r3) THEN r3
            ELSE Ok(r3.input, r2.value)

\* ------------------------------------------------------ assertion, context
\* assert that reports every failure at the cursor it was called on.
assert_reports_at_cursor(combinator, condition, message, input) ==
  LET result == Apply(combinator, input) IN
  IF ResultCondHolds(condition, result) THEN result
  ELSE LET again == Apply(combinator, input) IN
       IF IsFailure(again)
       THEN ParseError_fail(input, message \o <<"\n\n">> \o again.message)
       ELSE ParseError_fail(input, message)

assert(combinator, condition, message, input) ==
  LET result == Apply(combinator, input) IN
  IF ResultCondHolds(condition, result) THEN result
  ELSE LET again == Apply(combinator, input) IN
       IF IsFailure(again)
       THEN ParseError_fail(again.input, message \o <<"\n\n">> \o again.message)
       ELSE ParseError_fail(input, message)

assert_exists(combinator, message, input) ==
  assert(combinator, [test |-> "is_ok"], message, input)

with_failure_input(new_input, combinator, input) ==
  LET result == Apply(combinator, input) IN
  IF IsFailure(result) THEN Failure(new_input, result.message) ELSE result

with_error_context(combinator, message, input) ==
  LET r == Apply(combinator, input) IN
  CASE IsOk(r) -> r
    [] IsBacktrace(r) -> Backtrace
    [] OTHER -> ParseError_fail(r.input, message \o <<"\n\n">> \o r.message)

check_not(combinator, input) ==
  LET r == Apply(combinator, input) IN
  IF IsOk(r) THEN ParseError_backtrace ELSE Ok(input, Unit)

\* ------------------------------------------------------------------ driver
\* The driver without its check that all the input was consumed.
with_failure_handling_ignores_rest(combinator, input) ==
  LET r == Apply(combinator, input) IN
  CASE IsOk(r) -> [kind |-> "Ok", value |-> r.value]
    [] IsBacktrace(r) -> into_result(new_for_trailing_input(input))
    [] OTHER -> into_result(r)

with_failure_handling(combinator, input) ==
  LET r == Apply(combinator, input) IN
  CASE IsOk(r) ->
         IF r.input # <<>> THEN into_result(new_for_trailing_input(r.input))
         ELSE [kind |-> "Ok", value |-> r.value]
    [] IsBacktrace(r) -> into_result(new_for_trailing_input(input))
    [] OTHER -> into_result(r)

\* ------------------------------------------------------- calling a closure
\* The closure a library function returned, called on `input`.  "fail" and
\* "backtrace" are the caller's own closures |i| ParseError::fail(i, message)
\* and |_| ParseError::backtrace().
Apply(comb, input) ==
  CASE comb.op = "next_char" -> next_char(input)
    [] comb.op = "ch" -> ch(comb.c, input)
    [] comb.op = "one_of" -> one_of(comb.value, input)
    [] comb.op = "tag" -> tag(comb.value, input)
    [] comb.op = "substring" -> substring(comb.combinator, input)
    [] comb.op = "skip_while" -> skip_while(comb.cond, input)
    [] comb.op = "take_while" -> take_while(comb.cond, input)
    [] comb.op = "whitespace" -> whitespace(input)
    [] comb.op = "skip_whitespace" -> skip_whitespace(input)
    [] comb.op = "if_true" -> if_true(comb.combinator, comb.condition, input)
    [] comb.op = "maybe" -> maybe(comb.combinator, input)
    [] comb.op = "map" -> map(comb.combinator, comb.func, input)
    [] comb.op = "or" -> or(comb.a, comb.b, input)
    [] comb.op = "or3" -> or3(comb.a, comb.b, comb.c, input)
    [] comb.op = "or4" -> or4(comb.a, comb.b, comb.c, comb.d, input)
    [] comb.op = "or5" -> or5(comb.a, comb.b, comb.c, comb.d, comb.e, input)
    [] comb.op = "or6" -> or6(comb.a, comb.b, comb.c, comb.d, comb.e, comb.f, input)
    [] comb.op = "or7" ->
         or7(comb.a, comb.b, comb.c, comb.d, comb.e, comb.f, comb.g, input)
    [] comb.op = "pair" -> pair(comb.first, comb.second, input)
    [] comb.op = "preceded" -> preceded(comb.first, comb.second, input)
    [] comb.op = "terminated" -> terminated(comb.first, comb.second, input)
    [] comb.op = "delimited" -> delimited(comb.first, comb.second, comb.third, input)
    [] comb.op = "assert" -> assert(comb.combinator, comb.condition, comb.message, input)
    [] comb.op = "assert_exists" -> assert_exists(comb.combinator, comb.message, input)
    [] comb.op = "with_failure_input" ->
         with_failure_input(comb.new_input, comb.combinator, input)
    [] comb.op = "with_error_context" ->
         with_error_context(comb.combinator, comb.message, input)
    [] comb.op = "check_not" -> check_not(comb.combinator, input)
    [] comb.op = "fail" -> ParseError_fail(input, comb.message)
    [] comb.op = "backtrace" -> ParseError_backtrace

\* ------------------------------------------------------------------- loops
\* is_backtrace: Ok(false), Ok(true) or the failure, which `?` returns.
is_backtrace(result) ==
  CASE IsOk(result) -> [kind |-> "Ok", value |-> FALSE]
    [] IsBacktrace(result) -> [kind |-> "Ok", value |-> TRUE]
    [] OTHER -> result

\* if_not_empty(c) = if_true(c, |items| !items.is_empty()), on what c returned.
if_not_empty(r) ==
  IF ~IsOk(r) THEN r
  ELSE IF ValueCondHolds([test |-> "not_empty"], r.value) THEN Ok(r.input, r.value)
  ELSE ParseError_backtrace

\* ----------------------------------------------------------------- operands
NextChar == [op |-> "next_char"]
Ch(c) == [op |-> "ch", c |-> c]
Fail(message) == [op |-> "fail", message |-> message]
AlwaysBacktrace == [op |-> "backtrace"]

\* The combinators handed to the library functions: every primitive, the
\* caller's two closures, and two small compositions whose Failure comes
\* after a success.
Base ==
  { NextChar,
    Ch("x"),
    [op |-> "one_of", value |-> <<" ">>],
    [op |-> "tag", value |-> <<"x", " ">>],
    [op |-> "skip_while", cond |-> {"x"}],
    [op |-> "take_while", cond |-> {" "}],
    [op |-> "whitespace"],
    [op |-> "skip_whitespace"],
    Fail(<<"E">>),
    AlwaysBacktrace,
    Pair(Ch("x"), Fail(<<"E">>)),
    Or(Ch(" "), Fail(<<"E">>)) }

\* The alternatives of or3..or7 and the third operand of delimited.
Alts == {AlwaysBacktrace, NextChar, Fail(<<"E">>)}

ValueConds ==
  { [test |-> "always"], [test |-> "never"], [test |-> "not_empty"],
    [test |-> "eq_char", c |-> "x"] }

ResultConds ==
  { [test |-> "is_ok"], [test |-> "is_err"], [test |-> "not_failure"],
    [test |-> "never"] }

Message == <<"M">>

\* -------------------------------------------------------------------- state
VARIABLES
  input0,   \* the cursor the combinator is called on
  comb,     \* the combinator under test, as the library function built it
  pc,       \* "start", a loop position, or "done"
  input,    \* the loop's `mut input`
  results,  \* the loop's `results` Vec
  result,   \* what the call returned
  calls     \* the calls the loop made to its operands, in order

vars == <<input0, comb, pc, input, results, result, calls>>

NoComb == [op |-> "none"]
NoResult == [kind |-> "None"]

Init ==
  /\ input0 \in Str
  /\ comb = NoComb
  /\ pc = "start"
  /\ input = input0
  /\ results = <<>>
  /\ result = NoResult
  /\ calls = <<>>

\* A library function without a loop: build the closure, call it on input0.
Finish(c) ==
  /\ comb' = c
  /\ result' = Apply(c, input0)
  /\ pc' = "done"
  /\ UNCHANGED <<input0, input, results, calls>>

\* A library function with a loop: build the closure and enter its body.
Enter(c, at) ==
  /\ comb' = c
  /\ pc' = at
  /\ UNCHANGED <<input0, input, results, result, calls>>

Call_primitive ==
  /\ pc = "start"
  /\ \E c \in Base : Finish(c)

Call_with_failure_handling ==
  /\ pc = "start"
  /\ \E combinator \in Base :
       /\ comb' = [op |-> "with_failure_handling", combinator |-> combinator]
       /\ result' = with_failure_handling(combinator, input0)
       /\ pc' = "done"
       /\ UNCHANGED <<input0, input, results, calls>>

Call_substring ==
  /\ pc = "start"
  /\ \E combinator \in Base : Finish([op |-> "substring", combinator |-> combinator])

Call_if_true ==
  /\ pc = "start"
  /\ \E combinator \in Base, condition \in ValueConds :
       Finish([op |-> "if_true", combinator |-> combinator, condition |-> condition])

Call_maybe ==
  /\ pc = "start"
  /\ \E combinator \in Base : Finish([op |-> "maybe", combinator |-> combinator])

Call_map ==
  /\ pc = "start"
  /\ \E combinator \in Base :
       Finish([op |-> "map", combinator |-> combinator, func |-> [fn |-> "func"]])

Call_or ==
  /\ pc = "start"
  /\ \E a, b \in Base : Finish(Or(a, b))

Call_or3 ==
  /\ pc = "start"
  /\ \E a, b, c \in Alts : Finish(Or3(a, b, c))

Call_or4 ==
  /\ pc = "start"
  /\ \E a, b, c, d \in Alts : Finish(Or4(a, b, c, d))

Call_or5 ==
  /\ pc = "start"
  /\ \E a, b, c, d, e \in Alts : Finish(Or5(a, b, c, d, e))

Call_or6 ==
  /\ pc = "start"
  /\ \E a, b, c, d, e, f \in Alts : Finish(Or6(a, b, c, d, e, f))

Call_or7 ==
  /\ pc = "start"
  /\ \E a, b, c, d, e, f, g \in Alts : Finish(Or7(a, b, c, d, e, f, g))

Call_pair ==
  /\ pc = "start"
  /\ \E first, second \in Base : Finish(Pair(first, second))

Call_preceded ==
  /\ pc = "start"
  /\ \E first, second \in Base :
       Finish([op |-> "preceded", first |-> first, second |-> second])

Call_terminated ==
  /\ pc = "start"
  /\ \E first, second \in Base :
       Finish([op |-> "terminated", first |-> first, second |-> second])

Call_delimited ==
  /\ pc = "start"
  /\ \E first, second \in Base, third \in Alts :
       Finish([op |-> "delimited", first |-> first, second |-> second, third |-> third])

Call_assert_exists ==
  /\ pc = "start"
  /\ \E combinator \in Base :
       Finish([op |-> "assert_exists", combinator |-> combinator, message |-> Message])

Call_assert ==
  /\ pc = "start"
  /\ \E combinator \in Base, condition \in ResultConds :
       Finish([op |-> "assert", combinator |-> combinator, condition |-> condition,
               message |-> Message])

Call_with_failure_input ==
  /\ pc = "start"
  /\ \E combinator \in Base, new_input \in {<<>>, <<"x">>} :
       Finish([op |-> "with_failure_input", new_input |-> new_input,
               combinator |-> combinator])

Call_with_error_context ==
  /\ pc = "start"
  /\ \E combinator \in Base :
       Finish([op |-> "with_error_context", combinator |-> combinator,
               message |-> Message])

Call_check_not ==
  /\ pc = "start"
  /\ \E combinator \in Base : Finish([op |-> "check_not", combinator |-> combinator])

Call_many_till ==
  /\ pc = "start"
  /\ \E combinator, condition \in Base :
       Enter([op |-> "many_till", combinator |-> combinator, condition |-> condition],
             "many_till_while")

\* many0(c) = many_till(c, |_| ParseError::backtrace())
Call_many0 ==
  /\ pc = "start"
  /\ \E combinator \in Base :
       Enter([op |-> "many0", combinator |-> combinator, condition |-> AlwaysBacktrace],
             "many_till_while")

\* many1(c) = if_not_empty(many0(c))
Call_many1 ==
  /\ pc = "start"
  /\ \E combinator \in Base :
       Enter([op |-> "many1", combinator |-> combinator, condition |-> AlwaysBacktrace],
             "many_till_while")

Call_separated_list ==
  /\ pc = "start"
  /\ \E combinator, separator \in Base :
       Enter([op |-> "separated_list", combinator |-> combinator,
              separator |-> separator], "separated_list_combinator")

Called(who, out) == Append(calls, [who |-> who, at |-> input, out |-> out])

\* The loop's closure returns r (many1 hands it to if_not_empty first).
Return(r) ==
  /\ result' = IF comb.op = "many1" THEN if_not_empty(r) ELSE r
  /\ pc' = "done"
  /\ UNCHANGED <<input0, comb, input, results>>

\* The loop condition that leaves the loop, on a match of `condition`, with
\* the cursor after the match.
many_till_while_consumes_stop ==
  /\ pc = "many_till_while"
  /\ IF input = <<>>
     THEN Return(Ok(input, VecV(results))) /\ UNCHANGED calls
     ELSE LET c == Apply(comb.condition, input)
              t == is_backtrace(c)
          IN /\ calls' = Called("condition", c)
             /\ IF ~IsOk(t) THEN Return(t)
                ELSE IF ~t.value THEN Return(Ok(c.input, VecV(results)))
                ELSE /\ pc' = "many_till_body"
                     /\ UNCHANGED <<input0, comb, input, results, result>>

\* many_till, the loop condition: !input.is_empty() && is_backtrace(condition(input))?
many_till_while ==
  /\ pc = "many_till_while"
  /\ IF input = <<>>
     THEN Return(Ok(input, VecV(results))) /\ UNCHANGED calls
     ELSE LET c == Apply(comb.condition, input)
              t == is_backtrace(c)
          IN /\ calls' = Called("condition", c)
             /\ IF ~IsOk(t) THEN Return(t)
                ELSE IF ~t.value THEN Return(Ok(input, VecV(results)))
                ELSE /\ pc' = "many_till_body"
                     /\ UNCHANGED <<input0, comb, input, results, result>>

\* The loop body that hands a Backtrace of `combinator` on to its caller.
many_till_body_backtracks ==
  /\ pc = "many_till_body"
  /\ Len(results) < MaxResults
  /\ LET r == Apply(comb.combinator, input) IN
     /\ calls' = Called("combinator", r)
     /\ CASE IsOk(r) ->
               /\ results' = Append(results, r.value)
               /\ input' = r.input
               /\ pc' = "many_till_while"
               /\ UNCHANGED <<input0, comb, result>>
          [] OTHER -> Return(r)

\* The loop body that pushes the value and forgets to move the cursor.
many_till_body_keeps_cursor ==
  /\ pc = "many_till_body"
  /\ Len(results) < MaxResults
  /\ LET r == Apply(comb.combinator, input) IN
     /\ calls' = Called("combinator", r)
     /\ CASE IsOk(r) ->
               /\ results' = Append(results, r.value)
               /\ pc' = "many_till_while"
               /\ UNCHANGED <<input0, comb, input, result>>
          [] IsBacktrace(r) -> Return(Ok(input, VecV(results)))
          [] OTHER -> Return(r)

\* many_till, the loop body: match combinator(input)
many_till_body ==
  /\ pc = "many_till_body"
  /\ Len(results) < MaxResults
  /\ LET r == Apply(comb.combinator, input) IN
     /\ calls' = Called("combinator", r)
     /\ CASE IsOk(r) ->
               /\ results' = Append(results, r.value)
               /\ input' = r.input
               /\ pc' = "many_till_while"
               /\ UNCHANGED <<input0, comb, result>>
          [] IsBacktrace(r) -> Return(Ok(input, VecV(results)))
          [] OTHER -> Return(r)

\* separated_list, from the loop condition to the end of match combinator(input)
separated_list_combinator ==
  /\ pc = "separated_list_combinator"
  /\ Len(results) < MaxResults
  /\ IF input = <<>>
     THEN Return(Ok(input, VecV(results))) /\ UNCHANGED calls
     ELSE LET r == Apply(comb.combinator, input) IN
          /\ calls' = Called("combinator", r)
          /\ CASE IsOk(r) ->
                    /\ results' = Append(results, r.value)
                    /\ input' = r.input
                    /\ pc' = "separated_list_separator"
                    /\ UNCHANGED <<input0, comb, result>>
               [] IsBacktrace(r) -> Return(Ok(input, VecV(results)))
               [] OTHER -> Return(r)

\* The separator step with its first two match arms in each other's place.
separated_list_separator_swapped_arms ==
  /\ pc = "separated_list_separator"
  /\ LET s == Apply(comb.separator, input) IN
     /\ calls' = Called("separator", s)
     /\ CASE IsBacktrace(s) ->
               /\ pc' = "separated_list_combinator"
               /\ UNCHANGED <<input0, comb, input, results, result>>
          [] IsOk(s) -> Return(Ok(input, VecV(results)))
          [] OTHER -> Return(s)

\* separated_list: input = match separator(input)
separated_list_separator ==
  /\ pc = "separated_list_separator"
  /\ LET s == Apply(comb.separator, input) IN
     /\ calls' = Called("separator", s)
     /\ CASE IsOk(s) ->
               /\ input' = s.input
               /\ pc' = "separated_list_combinator"
               /\ UNCHANGED <<input0, comb, results, result>>
          [] IsBacktrace(s) -> Return(Ok(input, VecV(results)))
          [] OTHER -> Return(s)

Next ==
  \/ Call_primitive
  \/ Call_with_failure_handling
  \/ Call_substring
  \/ Call_if_true
  \/ Call_maybe
  \/ Call_map
  \/ Call_or
  \/ Call_or3
  \/ Call_or4
  \/ Call_or5
  \/ Call_or6
  \/ Call_or7
  \/ Call_pair
  \/ Call_preceded
  \/ Call_terminated
  \/ Call_delimited
  \/ Call_assert_exists
  \/ Call_assert
  \/ Call_with_failure_input
  \/ Call_with_error_context
  \/ Call_check_not
  \/ Call_many_till
  \/ Call_many0
  \/ Call_many1
  \/ Call_separated_list
  \/ many_till_while
  \/ many_till_body
  \/ separated_list_combinator
  \/ separated_list_separator

Spec == Init /\ [][Next]_vars

\* ================================================================== claims
Done == pc = "done"

\* What the operand `c` of the combinator under test returns on cursor `i`.
Out(c, i) == Apply(c, i)

OrOps == {"or", "or3", "or4", "or5", "or6", "or7"}

\* The alternatives of an or-family combinator, left to right.
Alternatives(c) ==
  CASE c.op = "or" -> <<c.a, c.b>>
    [] c.op = "or3" -> <<c.a, c.b, c.c>>
    [] c.op = "or4" -> <<c.a, c.b, c.c, c.d>>
    [] c.op = "or5" -> <<c.a, c.b, c.c, c.d, c.e>>
    [] c.op = "or6" -> <<c.a, c.b, c.c, c.d, c.e, c.f>>
    [] c.op = "or7" -> <<c.a, c.b, c.c, c.d, c.e, c.f, c.g>>

\* The outcome, on cursor i, of the leftmost alternative that does not
\* backtrack; Backtrace when every one backtracks.
LeftmostResult(alts, i) ==
  LET live == {k \in 1..Len(alts) : ~IsBacktrace(Out(alts[k], i))} IN
  IF live = {} THEN Backtrace
  ELSE Out(alts[CHOOSE k \in live : \A j \in live : k <= j], i)

\* C1. Alternation law: or(A,B)(i) is A(i) when A(i) is a success or a
\* Failure, and B(i), on the original cursor i, when A(i) is Backtrace;
\* or3..or7 return the outcome of the leftmost alternative that does not
\* backtrack, and Backtrace only when all of them backtrack.
C1_AlternationLaw ==
  (Done /\ comb.op \in OrOps) =>
    /\ comb.op = "or" =>
         LET ra == Out(comb.a, input0) IN
         result = IF IsOk(ra) \/ IsFailure(ra) THEN ra ELSE Out(comb.b, input0)
    /\ result = LeftmostResult(Alternatives(comb), input0)
    /\ IsBacktrace(result) <=>
         \A k \in 1..Len(Alternatives(comb)) :
           IsBacktrace(Out(Alternatives(comb)[k], input0))

\* or7 whose first alternative backtracks, whose second fails hard and whose
\* third would have succeeded: the Failure is the result.
C1_Witness ==
  /\ Done
  /\ comb.op = "or7"
  /\ IsBacktrace(Out(comb.a, input0))
  /\ IsFailure(Out(comb.b, input0))
  /\ IsOk(Out(comb.c, input0))
  /\ IsFailure(result)

\* C4. Driver completeness: with_failure_handling(C)(i) is Ok(v) exactly when
\* C(i) succeeds with value v and an empty cursor; a success with remainder r
\* gives the formatted "Unexpected character." failure at r; Backtrace gives
\* it at the original input i; a Failure is formatted with its own message
\* and location.
C4_DriverCompleteness ==
  (Done /\ comb.op = "with_failure_handling") =>
    LET out == Out(comb.combinator, input0)
        Formatted(message, at) ==
          [kind |-> "Err",
           error |-> message \o <<"\n  ">> \o Take(at, SnippetLen) \o <<"\n  ~">>]
    IN /\ (result.kind = "Ok") <=> (IsOk(out) /\ out.input = <<>>)
       /\ (IsOk(out) /\ out.input = <<>>) => result = [kind |-> "Ok", value |-> out.value]
       /\ (IsOk(out) /\ out.input # <<>>) =>
            result = Formatted(<<"Unexpected character.">>, out.input)
       /\ IsBacktrace(out) => result = Formatted(<<"Unexpected character.">>, input0)
       /\ IsFailure(out) => result = Formatted(out.message, out.input)

\* The driver on a combinator that succeeds and leaves input behind.
C4_Witness ==
  /\ Done
  /\ comb.op = "with_failure_handling"
  /\ IsOk(Out(comb.combinator, input0))
  /\ Out(comb.combinator, input0).input # <<>>
  /\ result.kind = "Err"

\* C5. Progress invariant: whatever combinator of the library is called on
\* i, a success returns a cursor that is a suffix of i; maybe on Backtrace
\* and check_not on success return exactly i.  The loops keep their cursor a
\* suffix of i at every iteration.
C5_ProgressInvariant ==
  /\ IsSuffix(input, input0)
  /\ (Done /\ comb.op # "with_failure_handling" /\ IsOk(result)) =>
       /\ IsSuffix(result.input, input0)
       /\ Len(result.input) <= Len(input0)
  /\ (Done /\ comb.op = "maybe" /\ IsBacktrace(Out(comb.combinator, input0))) =>
       (IsOk(result) /\ result.input = input0)
  /\ (Done /\ comb.op = "check_not" /\ IsOk(result)) => result.input = input0

\* A repetition that consumed part of a non-empty input and stopped short of
\* its end.
C5_Witness ==
  /\ Done
  /\ comb.op = "separated_list"
  /\ IsOk(result)
  /\ result.input # <<>>
  /\ result.input # input0

ManyTillOps == {"many_till", "many0", "many1"}
LoopOps == ManyTillOps \cup {"separated_list"}

\* The library combinators that wrap one sub-combinator and call it once, on
\* the cursor they are given.
UnaryWrappers ==
  { "maybe", "map", "substring", "if_true", "check_not", "assert", "assert_exists",
    "with_failure_input", "with_error_context" }

SequenceOps == {"pair", "preceded", "terminated", "delimited"}

\* Some call of a sub-combinator that the combinator under test made
\* returned a Failure.  An alternative is called when those to its left
\* backtracked, a sequence element when those before it succeeded, on the
\* cursor they left; the loops record their calls.
SubFailure(wrappers) ==
  \/ /\ comb.op \in UnaryWrappers \cap wrappers
     /\ IsFailure(Out(comb.combinator, input0))
  \/ /\ comb.op \in OrOps \cap wrappers
     /\ \E k \in 1..Len(Alternatives(comb)) :
          /\ \A j \in 1..(k - 1) : IsBacktrace(Out(Alternatives(comb)[j], input0))
          /\ IsFailure(Out(Alternatives(comb)[k], input0))
  \/ /\ comb.op \in SequenceOps \cap wrappers
     /\ LET r1 == Out(comb.first, input0) IN
        \/ IsFailure(r1)
        \/ /\ IsOk(r1)
           /\ LET r2 == Out(comb.second, r1.input) IN
              \/ IsFailure(r2)
              \/ /\ comb.op = "delimited"
                 /\ IsOk(r2)
                 /\ IsFailure(Out(comb.third, r2.input))
  \/ /\ comb.op \in LoopOps \cap wrappers
     /\ \E k \in 1..Len(calls) : IsFailure(calls[k].out)

FailureKept(wrappers) == (Done /\ SubFailure(wrappers)) => IsFailure(result)

\* C2 as stated: a Failure is never downgraded.  Whenever a call that a
\* library wrapper (or*, maybe, pair, preceded, terminated, delimited, map,
\* substring, if_true, many_till, many0, many1, separated_list, check_not,
\* assert, assert_exists, with_failure_input, with_error_context) makes to a
\* sub-combinator returns Failure, the wrapper's own result is a Failure.
C2_FailureNeverDowngraded ==
  FailureKept(UnaryWrappers \cup OrOps \cup SequenceOps \cup LoopOps)

\* ------------------------------------------------------- claims on the loops
InLoop == pc \notin {"start", "done"}

\* The k-th call the loop made.
IsCall(k, who) == calls[k].who = who
CallOk(k, who) == IsCall(k, who) /\ IsOk(calls[k].out)

\* The values of the successful calls to C, in call order.
CValues ==
  LET F[k \in 0..Len(calls)] ==
        IF k = 0 THEN <<>>
        ELSE IF CallOk(k, "combinator") THEN Append(F[k - 1], calls[k].out.value)
        ELSE F[k - 1]
  IN F[Len(calls)]

\* Loop iterations begun: each one calls C once.
Iterations == Cardinality({k \in 1..Len(calls) : IsCall(k, "combinator")})

\* A call to C in the loop that succeeded without consuming a character.
ZeroWidthAt(k) == CallOk(k, "combinator") /\ calls[k].out.input = calls[k].at
ZeroWidthSuccess == \E k \in 1..Len(calls) : ZeroWidthAt(k)

\* A call to C in the loop that succeeded and did not shorten the cursor.
NoProgressCall ==
  \E k \in 1..Len(calls) :
    CallOk(k, "combinator") /\ Len(calls[k].out.input) >= Len(calls[k].at)

\* C3 as stated: many0(C)(i) always succeeds, and its collected sequence is
\* empty iff C backtracks on its first invocation at i.
C3_AlwaysSucceeds ==
  (Done /\ comb.op = "many0") =>
    /\ IsOk(result)
    /\ (result.value.vec = <<>>) <=> IsBacktrace(Out(comb.combinator, input0))

\* C3, amended. many0(C)(i) never produces Backtrace: when it returns, it
\* returns a success or a Failure that a call to C raised; a success has an
\* empty collected sequence iff i is empty or C backtracks at i.
C3_RepetitionTotality ==
  (Done /\ comb.op = "many0") =>
    /\ ~IsBacktrace(result)
    /\ IsFailure(result) =>
         \E k \in 1..Len(calls) : IsCall(k, "combinator") /\ calls[k].out = result
    /\ IsOk(result) =>
         ((result.value.vec = <<>>) <=>
            (input0 = <<>> \/ IsBacktrace(Out(comb.combinator, input0))))

\* many0 returning C's Failure after it had collected a value.
C3_Witness ==
  /\ Done
  /\ comb.op = "many0"
  /\ IsFailure(result)
  /\ results # <<>>

\* C6 as stated: separated_list does not consume a trailing separator: when
\* the last separator match is not followed by a successful C match, the
\* cursor returned is the one before that separator.
C6_NoTrailingSeparator ==
  (Done /\ comb.op = "separated_list" /\ IsOk(result)) =>
    \A k \in 1..Len(calls) :
      ( /\ CallOk(k, "separator")
        /\ ~\E j \in (k + 1)..Len(calls) : CallOk(j, "combinator") )
      => result.input = calls[k].at

\* C8. many_till(C, stop) loop protocol.  Calls are made at non-empty cursors
\* only, stop first and C next on the same cursor, C only after stop
\* backtracked; a success of C appends its value and moves the cursor to the
\* one it returned.  A success of stop ends the loop with the values so far
\* and the cursor stop was called on; a Backtrace of C ends it with the
\* values so far at the current cursor; a Failure of either is the result.
\* On the empty input nothing is called and the result is an empty success.
C8_ManyTillProtocol ==
  (comb.op \in {"many_till", "many0"}) =>
    LET n == Len(calls)
        last == calls[n]
        sofar == Ok(last.at, VecV(CValues))
    IN /\ \A k \in 1..n :
            /\ calls[k].at # <<>>
            /\ IsCall(k, IF k % 2 = 1 THEN "condition" ELSE "combinator")
            /\ calls[k].out =
                 Out(IF k % 2 = 1 THEN comb.condition ELSE comb.combinator, calls[k].at)
            /\ k = 1 => calls[k].at = input0
            /\ (k > 1 /\ k % 2 = 0) =>
                 (calls[k].at = calls[k - 1].at /\ IsBacktrace(calls[k - 1].out))
            /\ (k > 1 /\ k % 2 = 1) =>
                 (IsOk(calls[k - 1].out) /\ calls[k].at = calls[k - 1].out.input)
       /\ results = CValues
       /\ input = IF n > 0 /\ CallOk(n, "combinator") THEN last.out.input
                  ELSE IF n > 0 THEN last.at ELSE input0
       /\ (pc = "many_till_body") => (n > 0 /\ IsCall(n, "condition"))
       /\ (pc = "many_till_while") => (n = 0 \/ CallOk(n, "combinator"))
       /\ Done =>
            /\ (n = 0) <=> (input0 = <<>>)
            /\ n = 0 => result = Ok(<<>>, VecV(<<>>))
            /\ (n > 0 /\ IsCall(n, "condition")) =>
                 /\ ~IsBacktrace(last.out)
                 /\ IsOk(last.out) => result = sofar
                 /\ IsFailure(last.out) => result = last.out
            /\ (n > 0 /\ IsCall(n, "combinator")) =>
                 /\ IsBacktrace(last.out) => result = sofar
                 /\ IsFailure(last.out) => result = last.out
                 /\ IsOk(last.out) =>
                      (last.out.input = <<>> /\ result = Ok(<<>>, VecV(CValues)))

\* many_till stopped by a success of stop after C had matched: the values
\* collected are returned and what stop matched is left in the cursor.
C8_Witness ==
  /\ Done
  /\ comb.op = "many_till"
  /\ Len(calls) >= 3
  /\ CallOk(Len(calls), "condition")
  /\ calls[Len(calls)].out.input # calls[Len(calls)].at
  /\ result = Ok(calls[Len(calls)].at, VecV(results))
  /\ results # <<>>

\* C10 as stated: a zero-width success of C inside many0, many_till or
\* separated_list, on a non-empty input, is a loop that never returns.
C10_ZeroWidthNeverReturns ==
  (comb.op \in LoopOps /\ ZeroWidthSuccess) => ~Done

\* C10, amended.  In many_till, many0 and many1 a zero-width success of C
\* (called at a non-empty cursor, stop having backtracked there) is a loop
\* that never returns.  In separated_list it is one only when the separator,
\* called next on the same cursor, also succeeds without consuming.
C10_ZeroWidthHazard ==
  /\ (comb.op \in ManyTillOps /\ ZeroWidthSuccess) => ~Done
  /\ (comb.op = "separated_list"
      /\ \E k \in 1..(Len(calls) - 1) :
           /\ ZeroWidthAt(k)
           /\ CallOk(k + 1, "separator")
           /\ calls[k + 1].out.input = calls[k + 1].at) => ~Done

\* separated_list going round on the same non-empty cursor: C and the
\* separator both matched nothing, twice over.
C10_Witness ==
  /\ comb.op = "separated_list"
  /\ Len(calls) >= 4
  /\ ZeroWidthAt(1) /\ ZeroWidthAt(3)
  /\ CallOk(2, "separator") /\ CallOk(4, "separator")
  /\ input = input0
  /\ input # <<>>
  /\ Len(results) >= 2

\* ---------------------------------------------------------------- fairness
\* The code runs a loop it has entered to its end: a loop step that can be
\* taken is taken.
LoopStep ==
  \/ many_till_while
  \/ many_till_body
  \/ separated_list_combinator
  \/ separated_list_separator

FairSpec == Init /\ [][Next]_vars /\ WF_vars(LoopStep)

\* C9. Termination under progress: many_till, many0, many1 and
\* separated_list return, unless a successful call to C in the loop did not
\* shorten the cursor; and until such a call the loop has begun at most
\* Len(input0) iterations.
C9_TerminationUnderProgress ==
  /\ InLoop ~> (Done \/ NoProgressCall)
  /\ [](~NoProgressCall => Iterations <= Len(input0))

\* A separated_list that returned after as many iterations as the input has
\* characters, each call to C having consumed one.
C9_Witness ==
  /\ Done
  /\ comb.op = "separated_list"
  /\ ~NoProgressCall
  /\ Len(input0) >= 2
  /\ Iterations = Len(input0)

====
